---- MODULE Spec2Model ----
(***************************************************************************)
(* Model of main_picking_primers.py: the Primer class, its constructor,    *)
(* its instance methods and its static pairwise checks.                    *)
(*                                                                         *)
(* A Python str is a sequence of one-character strings.  A Primer object   *)
(* is its attribute dictionary: a record whose DOMAIN is the set of        *)
(* attributes assigned so far.  The heap `primers` maps the identity of    *)
(* every successfully constructed Primer to its attribute dictionary.      *)
(* `ret` is the outcome of the most recent call: the operation, its        *)
(* arguments, the exception it raised ("none" when it returned) and the    *)
(* value it returned (for the constructor: the attribute dictionary of     *)
(* the object at the moment the constructor returned or raised).           *)
(*                                                                         *)
(* A Python float produced by int / int is modelled by the exact rational  *)
(* in lowest terms, [num, den]; for the lengths explored here the          *)
(* comparison with 50 is decided identically on the rounded double.        *)
(***************************************************************************)
EXTENDS Integers, Sequences, FiniteSets

VARIABLES primers, ret

vars == <<primers, ret>>

\* ---------------------------------------------------------------- bounds
\* longest enumerated input of the one-primer specification
MaxLen == 4
\* longest enumerated input of the two-primer specification
MaxPairLen == 2

\* ------------------------------------------------------------- alphabet
Bases == {"A", "T", "C", "G"}
\* "N" stands for any symbol outside the four bases
Symbols == Bases \cup {"N"}

SeqsUpTo(S, n) == UNION {[1..k -> S] : k \in 0..n}

Example15 == <<"G","C","G","C","A","T","A","T","G","C","G","C","A","T","G">>
Example16 == Example15 \o <<"A">>
Example17 == Example15 \o <<"A","C">>
Example18 == Example15 \o <<"A","C","T">>
Example6 == <<"G","A","T","T","C","C">>
Example6rc == <<"G","G","A","A","T","C">>
Example4 == <<"A","C","G","T">>
Example5 == <<"T","T","A","C","G">>

\* inputs handed to the constructor
SingleInputs == SeqsUpTo(Symbols, MaxLen)
  \cup {Example5, Example6, Example15, Example16, Example17, Example18}
PairInputs == SeqsUpTo(Symbols, MaxPairLen) \cup {Example4, Example5, Example6, Example6rc}

\* ------------------------------------------------------ Python helpers
Return(v) == [exc |-> "none", val |-> v]
Raise(e) == [exc |-> e, val |-> <<>>]

Min(a, b) == IF a < b THEN a ELSE b
Max(a, b) == IF a > b THEN a ELSE b
Abs(a) == IF a < 0 THEN -a ELSE a

RECURSIVE GCD(_, _)
GCD(a, b) == IF b = 0 THEN a ELSE GCD(b, a % b)

\* int / int true division: ZeroDivisionError on a zero divisor
TrueDiv(n, d) ==
  IF d = 0 THEN Raise("ZeroDivisionError")
  ELSE LET g == GCD(n, d) IN Return([num |-> n \div g, den |-> d \div g])

\* float >= int
FloatGe(f, k) == f.num >= k * f.den

\* s[lo:hi] with 0-based, half-open, clamped bounds (0 <= lo)
Slice(s, lo, hi) == SubSeq(s, lo + 1, Min(hi, Len(s)))

\* s[-k:]
Suffix(s, k) == SubSeq(s, Max(Len(s) - k, 0) + 1, Len(s))

\* s[-1]: IndexError on the empty string
LastItem(s) == IF Len(s) = 0 THEN Raise("IndexError") ELSE Return(s[Len(s)])

\* s[:0:-1]: the reversal that loses the first symbol
ReversedDropFirst(s) == [i \in 1..(Len(s) - 1) |-> s[Len(s) + 1 - i]]

\* s[::-1]
Reversed(s) == [i \in 1..Len(s) |-> s[Len(s) + 1 - i]]

\* str.count(c) for a one-character c
Count(s, c) == Cardinality({i \in 1..Len(s) : s[i] = c})

\* list.insert(i, x) for 0 <= i <= len(l)
ListInsert(l, i, x) == SubSeq(l, 1, i) \o <<x>> \o SubSeq(l, i + 1, Len(l))

\* zip(a, b): pairs up to the shorter length
Zip(a, b) == [i \in 1..Min(Len(a), Len(b)) |-> <<a[i], b[i]>>]

\* ------------------------------------------------------ Primer methods
complement_dict == [c \in Bases |->
  CASE c = "A" -> "T" [] c = "T" -> "A" [] c = "C" -> "G" [] c = "G" -> "C"]

\* d.get(k, k): an unknown key is passed through instead of raising
dict_get_default(d, k) == Return(IF k \in DOMAIN d THEN d[k] ELSE k)

\* d[k]: KeyError on a missing key
dict_getitem(d, k) == IF k \in DOMAIN d THEN Return(d[k]) ELSE Raise("KeyError")

\* [complement_dict[c] for c in s]: the first failing lookup raises
ComplementEach(s) ==
  IF \E i \in 1..Len(s) : dict_getitem(complement_dict, s[i]).exc # "none"
  THEN Raise("KeyError")
  ELSE Return([i \in 1..Len(s) |-> dict_getitem(complement_dict, s[i]).val])

\* gc_content that guards the division and yields 0 for an empty sequence
gc_content_guarded(self) ==
  IF self.len = 0 THEN Return([num |-> 0, den |-> 1])
  ELSE TrueDiv(100 * Cardinality({i \in 1..Len(self.seq) : self.seq[i] \in {"G", "C"}}),
               self.len)

gc_content(self) ==
  TrueDiv(100 * Cardinality({i \in 1..Len(self.seq) : self.seq[i] \in {"G", "C"}}),
          self.len)

\* min_large_17 with the threshold off by two
min_large_15(self) == Return(self.len >= 15)

min_large_17(self) == Return(self.len >= 17)

\* primer_tm that counts C twice and never G
primer_tm_cc(self) ==
  Return(4 * (Count(self.seq, "C") + Count(self.seq, "C"))
         + 2 * (Count(self.seq, "A") + Count(self.seq, "T")))

\* primer_tm without the parentheses around the A+T term
primer_tm_noparen(self) ==
  Return(4 * (Count(self.seq, "C") + Count(self.seq, "G"))
         + 2 * Count(self.seq, "A") + Count(self.seq, "T"))

primer_tm(self) ==
  Return(4 * (Count(self.seq, "C") + Count(self.seq, "G"))
         + 2 * (Count(self.seq, "A") + Count(self.seq, "T")))

primer_comp(self) ==
  LET c == ComplementEach(self.seq) IN
  IF c.exc # "none" THEN c ELSE Return(Reversed(c.val))

\* the constructor: the attribute dictionary when it returns or raises
__init__(dna_string) ==
  LET o2 == [seq |-> dna_string, len |-> Len(dna_string)]
      gc == gc_content(o2)
      o3 == [seq |-> o2.seq, len |-> o2.len, gc |-> gc.val]
      tm == primer_tm(o3)
      o4 == [seq |-> o2.seq, len |-> o2.len, gc |-> gc.val, tm |-> tm.val]
      m17 == min_large_17(o4)
      o5 == [seq |-> o2.seq, len |-> o2.len, gc |-> gc.val, tm |-> tm.val,
             min17 |-> m17.val]
      end == LastItem(dna_string)
      o6 == [seq |-> o2.seq, len |-> o2.len, gc |-> gc.val, tm |-> tm.val,
             min17 |-> m17.val, end |-> end.val]
      comp == primer_comp(o6)
      o7 == [seq |-> o2.seq, len |-> o2.len, gc |-> gc.val, tm |-> tm.val,
             min17 |-> m17.val, end |-> end.val, comp |-> comp.val]
  IN  IF gc.exc # "none" THEN [exc |-> gc.exc, val |-> o2]
      ELSE IF tm.exc # "none" THEN [exc |-> tm.exc, val |-> o3]
      ELSE IF m17.exc # "none" THEN [exc |-> m17.exc, val |-> o4]
      ELSE IF end.exc # "none" THEN [exc |-> end.exc, val |-> o5]
      ELSE IF comp.exc # "none" THEN [exc |-> comp.exc, val |-> o6]
      ELSE Return(o7)

\* the second loop of no_hairpin: for i in range(n): l.insert(i, complement(l[i]))
RECURSIVE InsertLoop(_, _, _)
InsertLoop(l, i, n) ==
  IF i >= n THEN Return(l)
  ELSE LET c == ComplementEach(l[i + 1]) IN
       IF c.exc # "none" THEN c
       ELSE InsertLoop(ListInsert(l, i, c.val), i + 1, n)

no_hairpin(self) ==
  LET n == Max(self.len - 3, 0)
      list_of_hairpin_trials_1 == [i \in 1..n |-> Slice(self.seq, i - 1, i + 3)]
      filled == [i \in 1..n |-> Slice(self.seq, i - 1, i + 3)]
      list_of_hairpin_trials_2 == InsertLoop(filled, 0, Len(filled))
  IN  IF list_of_hairpin_trials_2.exc # "none" THEN list_of_hairpin_trials_2
      ELSE Return(<<list_of_hairpin_trials_1, list_of_hairpin_trials_2.val>>)

\* attribute lookup on a str instance: str defines no attribute named comp,
\* the only name the program asks a str for
str_getattr(s, name) == Raise("AttributeError")

no_primer_dimer(primer_1, primer_2) ==
  LET last_nuc1 == Suffix(primer_1.seq, 4)
      seq_comp == str_getattr(primer_2.seq, "comp")
      last_nuc2 == Suffix(seq_comp.val, 4)
      pairs == Zip(last_nuc1, last_nuc2)
      number_of_comp == Cardinality({i \in 1..Len(pairs) : pairs[i][1] = pairs[i][2]})
  IN  IF seq_comp.exc # "none" THEN seq_comp
      ELSE Return(number_of_comp <= 2)

gc_content_test(primer_1, primer_2) ==
  Return(FloatGe(primer_1.gc, 50) /\ FloatGe(primer_2.gc, 50))

anneling_temperature_check(primer_1, primer_2) ==
  Return(Abs(primer_1.tm - primer_2.tm) <= 5)

is_end_g_or_c(primer_1, primer_2) ==
  Return(primer_1.end \in {"G", "C"} /\ primer_2.end \in {"G", "C"})

\* --------------------------------------------------------------- state
NoCall == [op |-> "none", args |-> <<>>, exc |-> "none", val |-> <<>>]

Outcome(op, args, r) == [op |-> op, args |-> args, exc |-> r.exc, val |-> r.val]

Init ==
  /\ primers = [i \in {} |-> <<>>]
  /\ ret = NoCall

\* Primer(dna_string): object i exists afterwards only if __init__ returned
New(i, dna_string) ==
  /\ i \notin DOMAIN primers
  /\ LET r == __init__(dna_string) IN
     /\ ret' = Outcome("Primer", <<dna_string>>, r)
     /\ primers' = IF r.exc = "none"
                   THEN [k \in DOMAIN primers \cup {i} |->
                           IF k = i THEN r.val ELSE primers[k]]
                   ELSE primers

Call_gc_content(i) ==
  /\ i \in DOMAIN primers
  /\ ret' = Outcome("gc_content", <<i>>, gc_content(primers[i]))
  /\ UNCHANGED primers

Call_min_large_17(i) ==
  /\ i \in DOMAIN primers
  /\ ret' = Outcome("min_large_17", <<i>>, min_large_17(primers[i]))
  /\ UNCHANGED primers

Call_primer_tm(i) ==
  /\ i \in DOMAIN primers
  /\ ret' = Outcome("primer_tm", <<i>>, primer_tm(primers[i]))
  /\ UNCHANGED primers

\* primer_comp that stores its result over self.seq
Call_primer_comp_inplace(i) ==
  /\ i \in DOMAIN primers
  /\ ret' = Outcome("primer_comp", <<i>>, primer_comp(primers[i]))
  /\ primers' = IF ret'.exc = "none"
                THEN [primers EXCEPT ![i].seq = ret'.val]
                ELSE primers

Call_primer_comp(i) ==
  /\ i \in DOMAIN primers
  /\ ret' = Outcome("primer_comp", <<i>>, primer_comp(primers[i]))
  /\ UNCHANGED primers

Call_no_hairpin(i) ==
  /\ i \in DOMAIN primers
  /\ ret' = Outcome("no_hairpin", <<i>>, no_hairpin(primers[i]))
  /\ UNCHANGED primers

Call_no_primer_dimer(i, j) ==
  /\ i \in DOMAIN primers /\ j \in DOMAIN primers
  /\ ret' = Outcome("no_primer_dimer", <<i, j>>, no_primer_dimer(primers[i], primers[j]))
  /\ UNCHANGED primers

Call_gc_content_test(i, j) ==
  /\ i \in DOMAIN primers /\ j \in DOMAIN primers
  /\ ret' = Outcome("gc_content_test", <<i, j>>, gc_content_test(primers[i], primers[j]))
  /\ UNCHANGED primers

Call_anneling_temperature_check(i, j) ==
  /\ i \in DOMAIN primers /\ j \in DOMAIN primers
  /\ ret' = Outcome("anneling_temperature_check", <<i, j>>,
                    anneling_temperature_check(primers[i], primers[j]))
  /\ UNCHANGED primers

Call_is_end_g_or_c(i, j) ==
  /\ i \in DOMAIN primers /\ j \in DOMAIN primers
  /\ ret' = Outcome("is_end_g_or_c", <<i, j>>, is_end_g_or_c(primers[i], primers[j]))
  /\ UNCHANGED primers

\* every operation of the class applied to the objects I, built from Inputs
Step(I, Inputs) ==
  \/ \E i \in I, s \in Inputs : New(i, s)
  \/ \E i \in I : Call_gc_content(i)
  \/ \E i \in I : Call_min_large_17(i)
  \/ \E i \in I : Call_primer_tm(i)
  \/ \E i \in I : Call_primer_comp(i)
  \/ \E i \in I : Call_no_hairpin(i)
  \/ \E i \in I, j \in I : Call_no_primer_dimer(i, j)
  \/ \E i \in I, j \in I : Call_gc_content_test(i, j)
  \/ \E i \in I, j \in I : Call_anneling_temperature_check(i, j)
  \/ \E i \in I, j \in I : Call_is_end_g_or_c(i, j)

\* two primers, short inputs: the pairwise checks
Next == Step({1, 2}, PairInputs)
Spec == Init /\ [][Next]_vars

\* one primer, longer inputs: the per-primer computations
NextSingle == Step({1}, SingleInputs)
SpecSingle == Init /\ [][NextSingle]_vars

\* ------------------------------------------------------------- claims
IsCall(op) == ret.op = op
Arg(k) == primers[ret.args[k]]

\* symbol-wise Watson-Crick partner, defined case by case
Partner(c) == IF c = "A" THEN "T" ELSE IF c = "T" THEN "A"
              ELSE IF c = "C" THEN "G" ELSE IF c = "G" THEN "C" ELSE "?"

MatchCount(a, b) ==
  Cardinality({k \in 1..4 : k <= Len(a) /\ k <= Len(b) /\ a[k] = b[k]})

\* C1: no_primer_dimer(p1, p2) returns a boolean, true iff at most 2 positions
\* of the last 4 symbols of p1.seq equal the last 4 symbols of p2.comp
C1_DimerReturnsMatchBound ==
  IsCall("no_primer_dimer") =>
    /\ ret.exc = "none"
    /\ ret.val \in BOOLEAN
    /\ ret.val = (MatchCount(Suffix(Arg(1).seq, 4), Suffix(Arg(2).comp, 4)) <= 2)

\* C2: no_hairpin on a primer of length L returns two lists of L-3 windows
\* each when L >= 4, and of zero windows each when L < 4
C2_HairpinWindowCounts ==
  IsCall("no_hairpin") =>
    /\ ret.exc = "none"
    /\ LET L == Arg(1).len
           expected == IF L >= 4 THEN L - 3 ELSE 0
       IN  Len(ret.val[1]) = expected /\ Len(ret.val[2]) = expected

\* C3: the second list of no_hairpin is the first list (the raw windows
\* seq[i:i+4] in order) with every window complemented symbol by symbol,
\* not reversed
C3_HairpinSecondIsComplement ==
  IsCall("no_hairpin") =>
    /\ ret.exc = "none"
    /\ LET first == ret.val[1]
           second == ret.val[2]
           s == Arg(1).seq
       IN  /\ \A i \in 1..Len(first) : first[i] = SubSeq(s, i, i + 3)
           /\ \A i \in 1..Len(first) :
                /\ i \in DOMAIN second
                /\ second[i] = [k \in 1..Len(first[i]) |-> Partner(first[i][k])]

\* C4: the complement of the Primer built from the complement of a Primer is
\* that Primer's sequence
C4_ComplementInvolution ==
  \A i \in DOMAIN primers : \A j \in DOMAIN primers :
    primers[j].seq = primers[i].comp => primers[j].comp = primers[i].seq

C4_Witness ==
  \E i \in DOMAIN primers : \E j \in DOMAIN primers :
    /\ primers[j].seq = primers[i].comp
    /\ primers[i].comp # primers[i].seq
    /\ primers[i].len >= 4

\* C5: constructing a Primer from the empty sequence raises, produces no
\* object and stores nothing as gc
C5_EmptyRejected ==
  /\ \A i \in DOMAIN primers : primers[i].seq # <<>>
  /\ IsCall("Primer") =>
       (ret.args[1] = <<>> => ret.exc # "none" /\ "gc" \notin DOMAIN ret.val)

C5_Witness ==
  IsCall("Primer") /\ ret.args[1] = <<>> /\ ret.exc = "ZeroDivisionError"

HasForeignSymbol(s) == \E k \in 1..Len(s) : s[k] \notin Bases

\* C6: a non-empty sequence with a symbol outside {A,T,C,G} at any position
\* makes the complement lookup raise KeyError during construction: nothing is
\* stored as comp and no Primer with such a sequence exists
C6_ForeignSymbolRejected ==
  /\ \A i \in DOMAIN primers : ~HasForeignSymbol(primers[i].seq)
  /\ IsCall("Primer") =>
       (ret.args[1] # <<>> /\ HasForeignSymbol(ret.args[1]) =>
          /\ ret.exc = "KeyError"
          /\ DOMAIN ret.val = {"seq", "len", "gc", "tm", "min17", "end"})

C6_Witness ==
  /\ IsCall("Primer") /\ ret.exc = "KeyError"
  /\ Len(ret.args[1]) >= 3
  /\ ret.args[1][1] \in Bases
  /\ ret.args[1][Len(ret.args[1])] \in Bases
  /\ HasForeignSymbol(ret.args[1])

RECURSIVE WallaceSum(_)
WallaceSum(s) ==
  IF s = <<>> THEN 0
  ELSE (IF Head(s) \in {"G", "C"} THEN 4 ELSE IF Head(s) \in {"A", "T"} THEN 2 ELSE 0)
       + WallaceSum(Tail(s))

\* C7: tm of every constructed Primer is 4*(#G + #C) + 2*(#A + #T), an integer
C7_TmFormula ==
  /\ \A i \in DOMAIN primers :
       primers[i].tm \in Int /\ primers[i].tm = WallaceSum(primers[i].seq)
  /\ IsCall("primer_tm") => ret.exc = "none" /\ ret.val = WallaceSum(Arg(1).seq)

C7_Witness ==
  /\ IsCall("primer_tm")
  /\ \A b \in Bases : \E k \in 1..Len(Arg(1).seq) : Arg(1).seq[k] = b
  /\ ret.val = 12

\* C8: Primer("GCGCATATGCGCATG") has length 15, is_long_enough false,
\* gc_content 100*10/15, melting_temperature 4*10 + 2*5 = 50, terminal base G
C8_ExampleAsStated ==
  \A i \in DOMAIN primers :
    primers[i].seq = Example15 =>
      /\ primers[i].len = 15
      /\ primers[i].min17 = FALSE
      /\ primers[i].gc.num * 15 = 100 * 10 * primers[i].gc.den
      /\ primers[i].tm = 50
      /\ primers[i].end = "G"

\* C8 as amended: Primer("GCGCATATGCGCATG") has length 15, is_long_enough
\* false, gc_content 100*9/15 = 60, melting_temperature 4*9 + 2*6 = 48,
\* terminal base G
C8_ExampleAsComputed ==
  \A i \in DOMAIN primers :
    primers[i].seq = Example15 =>
      /\ primers[i].len = 15
      /\ primers[i].min17 = FALSE
      /\ primers[i].gc.num * 15 = 100 * 9 * primers[i].gc.den
      /\ primers[i].tm = 48
      /\ primers[i].end = "G"

C8_Witness == \E i \in DOMAIN primers : primers[i].seq = Example15

DerivedFromSeq(p) ==
  /\ p.len = Len(p.seq)
  /\ p.gc = gc_content(p).val
  /\ p.tm = primer_tm(p).val
  /\ p.min17 = min_large_17(p).val
  /\ p.end = p.seq[Len(p.seq)]
  /\ p.comp = primer_comp(p).val

\* C9: once constructed, no call (returning or raising) changes any field of
\* any Primer, so len is the length of seq and every derived field equals its
\* value computed from seq
C9_ReadOnly ==
  /\ [](\A i \in DOMAIN primers : DerivedFromSeq(primers[i]))
  /\ [][\A i \in DOMAIN primers :
          i \in DOMAIN primers' /\ primers'[i] = primers[i]]_vars

C9_Witness ==
  /\ DOMAIN primers = {1, 2}
  /\ IsCall("no_primer_dimer")
  /\ ret.args = <<1, 2>>
  /\ ret.exc = "AttributeError"

GCSymbols(s) == Cardinality({k \in 1..Len(s) : s[k] = "G" \/ s[k] = "C"})

\* C10: tm = 2*(len + #G/C), so tm is even and 2*len <= tm <= 4*len; no two
\* Primers differ in tm by exactly 5, and anneling_temperature_check is true
\* iff the tm difference is at most 4
C10_TmEven ==
  /\ \A i \in DOMAIN primers :
       /\ primers[i].tm = 2 * (primers[i].len + GCSymbols(primers[i].seq))
       /\ primers[i].tm % 2 = 0
       /\ 2 * primers[i].len <= primers[i].tm
       /\ primers[i].tm <= 4 * primers[i].len
  /\ \A i \in DOMAIN primers : \A j \in DOMAIN primers :
       Abs(primers[i].tm - primers[j].tm) # 5
  /\ IsCall("anneling_temperature_check") =>
       /\ ret.exc = "none"
       /\ ret.val = (Abs(Arg(1).tm - Arg(2).tm) <= 4)

C10_Witness ==
  /\ IsCall("anneling_temperature_check")
  /\ Abs(Arg(1).tm - Arg(2).tm) = 4
  /\ ret.val = TRUE

====
